---- MODULE Spec2Model ----
(***************************************************************************)
(* Quick File Hasher (quick-file-hasher-app.py): the concurrent hashing    *)
(* engine of MainWindow.                                                   *)
(*                                                                         *)
(* Threads of the model:                                                   *)
(*   - the GTK main thread: start_job, the Cancel button, and the GLib     *)
(*     timers process_queue and check_processing_complete (hide_progress   *)
(*     only fades the bar and the spinner and is left out);                *)
(*   - one processing thread per job set, running calculate_hash;          *)
(*   - the ThreadPoolExecutor workers of a job set, running hash_task.     *)
(*                                                                         *)
(* The Copy All and Save handlers only read the two lists of rows; they    *)
(* are run on their own specification, TxtSpec; DrainSpec runs             *)
(* process_queue on queues longer than the small job sets of Spec fill.    *)
(*                                                                         *)
(* Lengths are counted in chunks: one f.read(chunk_size) that returns data *)
(* is one unit, and a file of size s is s units long.                      *)
(***************************************************************************)
EXTENDS Naturals, Integers, Sequences, FiniteSets, TLC

\* ------------------------------------------------------------- bounds
\* A run is either wide (one job set, several jobs hashed concurrently) or
\* overlapping (several job sets alive at once, each small).
MaxPaths == 2         \* wide: input paths given to start_job
MaxJobs == 2          \* wide: jobs enumerated for the job set
MaxWorkers == 2       \* wide: max(1, os.cpu_count() - 1)
MaxJobSets == 2       \* overlapping: calls of start_job in one run
OverlapPaths == 1     \* overlapping: input paths given to one start_job
OverlapJobs == 1      \* overlapping: jobs enumerated for one job set
MaxSize == 1          \* st_size of a file, and chunks a file yields when read
MaxEntries == 2       \* wide: entries of a directory given as input path
OverlapEntries == 1   \* overlapping: entries of a directory given as input path
MaxRows == 2          \* rows of each list handed to results_to_txt
MaxQueue == 9         \* events in the queue one call of process_queue finds

\* ------------------------------------------------- program constants
BatchLimit == 8     \* process_queue: iterations < 8

Max(a, b) == IF a >= b THEN a ELSE b

JobSets == 1..MaxJobSets
JobIds == 1..Max(MaxJobs, OverlapJobs)

Wide == [jobsets |-> 1, paths |-> MaxPaths, jobs |-> MaxJobs, entries |-> MaxEntries]
Overlapping == [jobsets |-> MaxJobSets, paths |-> OverlapPaths, jobs |-> OverlapJobs,
                entries |-> OverlapEntries]

VARIABLES
    limits,          \* the bounds of this run: Wide or Overlapping
    algo,            \* per job set: the algorithm name calculate_hash was given
    output,          \* what the last call of results_to_txt gave its caller
    cancel_event,    \* self.cancel_event (threading.Event)
    update_queue,    \* self.update_queue (Queue), oldest event first
    fraction,        \* self.progress_bar fraction, <<numerator, denominator>>
    ui_results,      \* self.ui_results rows, in order of arrival
    ui_errors,       \* self.ui_errors rows, in order of arrival
    button_cancel,   \* self.button_cancel is visible
    button_open,     \* self.button_open is sensitive
    timers,          \* live GLib timers per callback
    started,         \* number of start_job calls so far
    max_workers,     \* bound of the ThreadPoolExecutor
    thread,          \* per job set: position of calculate_hash
    paths,           \* per job set: input paths the enumerator has yet to finish
    entry,           \* per job set: entry path.iterdir() is at, 0 outside a listing
    jobs,            \* per job set: st_size of each job, in job order
    total_bytes,     \* per job set: calculate_hash's total_bytes
    bytes_read,      \* per job set: hash_task.bytes_read
    task,            \* per job set and job: [pc, read, hashed, tmp] of hash_task
    cancelled,       \* history: Cancel was clicked after the job set started
    frac_src,        \* history: job set whose progress event set the bar, 0 if none
    seen_one         \* history: process_queue applied 1.0 from an event of the set

vars == <<limits, algo, output, cancel_event, update_queue, fraction, ui_results, ui_errors,
          button_cancel, button_open, timers, started,
          max_workers, thread, paths, entry, jobs, total_bytes,
          bytes_read, task, cancelled, frac_src, seen_one>>

\* ------------------------------------------------------------ helpers
Zero == <<0, 1>>
One == <<1, 1>>

FractionUnclamped(b, t) == <<b, t>>

\* min(hash_task.bytes_read / total_bytes, 1.0), for total_bytes > 0
Fraction(b, t) == IF b >= t THEN One ELSE <<b, t>>

IsOne(f) == f[1] = f[2]
\* f <= g for fractions with positive denominators
FracLeq(f, g) == f[1] * g[2] <= g[1] * f[2]

\* An event of the queue. The tuples of the code carry the file name; js
\* (job set), src and id (job index, or index of the input path for an
\* enumeration error) stand for it.
ProgressEv(j, f) == [kind |-> "progress", js |-> j, src |-> "task", id |-> 0, frac |-> f]
ResultEv(j, i) == [kind |-> "result", js |-> j, src |-> "task", id |-> i, frac |-> Zero]
ErrorEv(j, s, i) == [kind |-> "error", js |-> j, src |-> s, id |-> i, frac |-> Zero]

Queue == <<>>

\* hash_task of one job: its position, the chunks it got from f.read, the
\* chunks it fed to hash_obj.update, and the value it holds between two steps
NoTask == [pc |-> "none", read |-> 0, hashed |-> 0, tmp |-> 0]
Pending == [pc |-> "pending", read |-> 0, hashed |-> 0, tmp |-> 0]

Running == {"read", "load", "store", "frac", "put"}
Terminal == {"result", "error", "abandoned", "raised", "cancelled"}

NJobs(j) == Len(jobs[j])
Tasks(j) == 1..NJobs(j)

Count(seq, e) == Cardinality({k \in 1..Len(seq) : seq[k] = e})

\* HashResultRow(file_name, hash_value, algo): the row made from an event
Row(e) == [js |-> e.js, src |-> e.src, id |-> e.id]

\* A text is a sequence of lines; a line is a section title, the rule of
\* dashes under it, the line of a row, or a blank line.
NoRow == [js |-> 0, src |-> "", id |-> 0]
TitleLine(name) == [kind |-> "title", name |-> name, row |-> NoRow]
RuleLine == [kind |-> "rule", name |-> "", row |-> NoRow]
BlankLine == [kind |-> "blank", name |-> "", row |-> NoRow]

\* HashResultRow.__str__: "<file_name>:<hash_value>:<algo>", never empty
Str(r) == [kind |-> "row", name |-> "", row |-> r]

\* what a caller of results_to_txt holds before and after the call
NoOutput == [called |-> FALSE, raised |-> FALSE, text |-> <<>>]
Returned(text) == [called |-> TRUE, raised |-> FALSE, text |-> text]
UnboundLocalError == [called |-> TRUE, raised |-> TRUE, text |-> <<>>]

\* hashlib.algorithms_guaranteed, for which hashlib.new(algo) returns an
\* object, and the names start_job may be called with
Supported == {"sha256"}
Algorithms == Supported \cup {"unknown"}

\* What an input path is when the enumerator reaches it: nothing (missing),
\* a regular file, a special file (FIFO, socket, device), or a directory
\* with its entries in listing order, each a regular file or not ("dir").
SeqsUpTo(S, n) == UNION {[1..k -> S] : k \in 0..n}

NoEntries == <<>>

PathsOver(n) ==
    {[kind |-> k, entries |-> NoEntries] : k \in {"missing", "file", "special"}}
    \cup {[kind |-> "dir", entries |-> es] : es \in SeqsUpTo({"file", "dir"}, n)}

\* jobs the enumerator adds for path p when nothing raises
FilesOf(p) ==
    IF p.kind = "dir"
    THEN Cardinality({k \in 1..Len(p.entries) : p.entries[k] = "file"})
    ELSE IF p.kind \in {"file", "special"} THEN 1 ELSE 0

RECURSIVE FilesIn(_)
FilesIn(ps) == IF ps = <<>> THEN 0 ELSE FilesOf(Head(ps)) + FilesIn(Tail(ps))

\* the lists of input paths of a run with the limits l
PathLists(l) ==
    {ps \in SeqsUpTo(PathsOver(l.entries), l.paths) : FilesIn(ps) <= l.jobs}

\* ---------------------------------------------------------------- Init
\* MainWindow.__init__ with paths = None: no job set is started yet.
Init ==
    /\ limits \in {Wide, Overlapping}
    /\ algo = [j \in JobSets |-> "sha256"]
    /\ output = NoOutput
    /\ cancel_event = FALSE
    /\ update_queue = Queue
    /\ fraction = Zero
    /\ ui_results = <<>>
    /\ ui_errors = <<>>
    /\ button_cancel = FALSE
    /\ button_open = TRUE
    /\ timers = [pq |-> 0, cpc |-> 0]
    /\ started = 0
    /\ max_workers \in 1..(IF limits = Wide THEN MaxWorkers ELSE 1)
    /\ thread = [j \in JobSets |-> "none"]
    /\ paths = [j \in JobSets |-> <<>>]
    /\ entry = [j \in JobSets |-> 0]
    /\ jobs = [j \in JobSets |-> <<>>]
    /\ total_bytes = [j \in JobSets |-> 0]
    /\ bytes_read = [j \in JobSets |-> 0]
    /\ task = [j \in JobSets |-> [i \in JobIds |-> NoTask]]
    /\ cancelled = [j \in JobSets |-> FALSE]
    /\ frac_src = 0
    /\ seen_one = [j \in JobSets |-> FALSE]

\* ------------------------------------------------------ the main thread
\* start_job(paths, algo): callable from drag and drop, do_open and
\* on_click_make_hashes whenever the main loop is between callbacks.
start_job ==
    /\ started < limits.jobsets
    /\ LET j == started + 1 IN
        /\ started' = j
        /\ cancel_event' = FALSE
        /\ fraction' = Zero
        /\ frac_src' = 0
        /\ button_cancel' = TRUE
        /\ button_open' = FALSE
        /\ thread' = [thread EXCEPT ![j] = "enum"]
        /\ \E ps \in PathLists(limits) : paths' = [paths EXCEPT ![j] = ps]
        /\ \E a \in Algorithms : algo' = [algo EXCEPT ![j] = a]
        /\ timers' = [pq |-> timers.pq + 1, cpc |-> timers.cpc + 1]
    /\ UNCHANGED <<limits, output, update_queue, ui_results, ui_errors, max_workers, entry,
                   jobs, total_bytes, bytes_read,
                   task, cancelled, seen_one>>

\* button_cancel "clicked": self.cancel_event.set()
cancel_clicked ==
    /\ button_cancel
    /\ cancel_event' = TRUE
    /\ cancelled' = [j \in JobSets |-> j <= started]
    /\ UNCHANGED <<limits, algo, output, update_queue, fraction, ui_results, ui_errors, button_cancel,
                   button_open, timers, started, max_workers,
                   thread, paths, entry, jobs, total_bytes,
                   bytes_read, task, frac_src, seen_one>>

add_result_flipped(results, errors, row, is_error) ==
    IF is_error THEN <<Append(results, row), errors>>
    ELSE <<results, Append(errors, row)>>

\* add_result(file_name, hash_value, is_error): <<ui_results, ui_errors>> after it
add_result(results, errors, row, is_error) ==
    IF is_error THEN <<results, Append(errors, row)>>
    ELSE <<Append(results, row), errors>>

\* The while loop of process_queue from a queue q with the counter at it:
\* <<queue left, fraction, frac_src, seen_one, ui_results, ui_errors, taken>>.
\* A progress event does not count as an iteration.
RECURSIVE Drain(_, _, _, _, _, _, _, _)
Drain(q, it, f, fs, so, res, err, taken) ==
    IF q # <<>> /\ it < BatchLimit
    THEN LET update == Head(q) IN
         CASE update.kind = "progress" ->
                Drain(Tail(q), it, update.frac, update.js,
                      [so EXCEPT ![update.js] = @ \/ IsOne(update.frac)],
                      res, err, taken + 1)
           [] update.kind = "result" ->
                Drain(Tail(q), it + 1, f, fs, so,
                      add_result(res, err, Row(update), FALSE)[1],
                      add_result(res, err, Row(update), FALSE)[2], taken + 1)
           [] update.kind = "error" ->
                Drain(Tail(q), it + 1, f, fs, so,
                      add_result(res, err, Row(update), TRUE)[1],
                      add_result(res, err, Row(update), TRUE)[2], taken + 1)
    ELSE <<q, f, fs, so, res, err, taken>>

process_queue_unaware ==
    /\ timers.pq > 0
    /\ LET d == Drain(update_queue, 0, fraction, frac_src, seen_one,
                      ui_results, ui_errors, 0) IN
        /\ update_queue' = d[1]
        /\ fraction' = d[2]
        /\ frac_src' = d[3]
        /\ seen_one' = d[4]
        /\ ui_results' = d[5]
        /\ ui_errors' = d[6]
    /\ UNCHANGED <<limits, algo, output, cancel_event, button_cancel, button_open,
                   timers, started, max_workers, thread, paths, entry, jobs,
                   total_bytes, bytes_read, task, cancelled>>

\* process_queue: with the cancel flag set the queue is replaced and the
\* timer stops; otherwise one batch is drained and the timer goes on. The
\* loop runs on the main thread; the producers only append behind it.
process_queue ==
    /\ timers.pq > 0
    /\ IF cancel_event
       THEN /\ update_queue' = Queue
            /\ timers' = [timers EXCEPT !.pq = @ - 1]
            /\ UNCHANGED <<fraction, frac_src, seen_one, ui_results, ui_errors>>
       ELSE LET d == Drain(update_queue, 0, fraction, frac_src, seen_one,
                           ui_results, ui_errors, 0) IN
            /\ update_queue' = d[1]
            /\ fraction' = d[2]
            /\ frac_src' = d[3]
            /\ seen_one' = d[4]
            /\ ui_results' = d[5]
            /\ ui_errors' = d[6]
            /\ UNCHANGED timers
    /\ UNCHANGED <<limits, algo, output, cancel_event, button_cancel, button_open, started, max_workers,
                   thread, paths, entry, jobs, total_bytes, bytes_read, task,
                   cancelled>>

\* check_processing_complete: declares the job set complete
check_processing_complete ==
    /\ timers.cpc > 0
    /\ IF IsOne(fraction) \/ cancel_event
       THEN /\ button_open' = TRUE
            /\ button_cancel' = FALSE
            /\ timers' = [timers EXCEPT !.cpc = @ - 1]
       ELSE UNCHANGED <<button_open, button_cancel, timers>>
    /\ UNCHANGED <<limits, algo, output, cancel_event, update_queue, fraction, ui_results, ui_errors,
                   started, max_workers, thread, paths, entry, jobs, total_bytes, bytes_read, task, cancelled,
                   frac_src, seen_one>>

\* results_to_txt: the local name output is bound only by the branch of a
\* non-empty results_text; the errors branch and the return statement read it.
results_to_txt(results, errors) ==
    LET results_text == [k \in 1..Len(results) |-> Str(results[k])]
        errors_text == [k \in 1..Len(errors) |-> Str(errors[k])]
        bound == results_text # <<>>
        first == <<TitleLine("Results"), RuleLine>> \o results_text
                 \o (IF errors_text # <<>> THEN <<BlankLine>> ELSE <<>>)
    IN  IF errors_text # <<>>
        THEN IF bound
             THEN Returned(first \o <<TitleLine("Errors"), RuleLine>> \o errors_text)
             ELSE UnboundLocalError
        ELSE IF bound THEN Returned(first) ELSE UnboundLocalError

\* on_copy_all_clicked, and the callback of on_save_clicked: output = self.results_to_txt()
on_copy_all_clicked ==
    /\ output' = results_to_txt(ui_results, ui_errors)
    /\ UNCHANGED <<limits, algo, cancel_event, update_queue, fraction, ui_results,
                   ui_errors, button_cancel, button_open, timers, started,
                   max_workers, thread, paths, entry, jobs, total_bytes,
                   bytes_read, task, cancelled, frac_src, seen_one>>

\* -------------------------------------- calculate_hash: the enumerator
enum_vars == <<limits, algo, output, cancel_event, fraction, ui_results, ui_errors, button_cancel,
               button_open, timers, started, max_workers,
               thread, bytes_read, task, cancelled, frac_src,
               seen_one>>

AddJobUncounted(j, size) ==
    /\ jobs' = [jobs EXCEPT ![j] = Append(@, size)]
    /\ UNCHANGED total_bytes

\* total_bytes += st_size; jobs.append(f)
AddJob(j, size) ==
    /\ total_bytes' = [total_bytes EXCEPT ![j] = @ + size]
    /\ jobs' = [jobs EXCEPT ![j] = Append(@, size)]

EnumFailureSilent(q, j, p) == q

\* except Exception as e: self.update_queue.put(("error", str(path), str(e), algo))
EnumFailure(q, j, p) == Append(q, ErrorEv(j, "enum", p))

is_file_or_dir(f) == TRUE

\* f.is_file() for an entry f of a listing
is_file(f) == f = "file"

\* for path in paths, a path for which path.is_dir() is false: path.stat()
\* gives the size of a regular or of a special file and the path is added,
\* or it raises (always so for a missing path) and the except clause reports.
enum_file(j) ==
    /\ thread[j] = "enum" /\ entry[j] = 0 /\ paths[j] # <<>>
    /\ LET path == Head(paths[j]) IN
        /\ path.kind # "dir"
        /\ \/ /\ path.kind \in {"file", "special"}
              /\ \E size \in 0..(IF path.kind = "file" THEN MaxSize ELSE 0) :
                    AddJob(j, size)
              /\ UNCHANGED update_queue
           \/ /\ update_queue' = EnumFailure(update_queue, j, Len(paths[j]))
              /\ UNCHANGED <<jobs, total_bytes>>
    /\ paths' = [paths EXCEPT ![j] = Tail(@)]
    /\ UNCHANGED entry
    /\ UNCHANGED enum_vars

\* a path for which path.is_dir() is true: path.iterdir() is entered
enum_dir_enter(j) ==
    /\ thread[j] = "enum" /\ entry[j] = 0 /\ paths[j] # <<>>
    /\ Head(paths[j]).kind = "dir"
    /\ entry' = [entry EXCEPT ![j] = 1]
    /\ UNCHANGED <<update_queue, jobs, total_bytes, paths>>
    /\ UNCHANGED enum_vars

\* for f in path.iterdir(), one pass: an entry for which f.is_file() holds is
\* statted and added, any other entry is passed over; or the listing ends;
\* or iterdir / stat raises and the except clause reports the directory,
\* keeping the jobs already added.
enum_dir_entry(j) ==
    /\ thread[j] = "enum" /\ entry[j] > 0
    /\ LET f == Head(paths[j]).entries
           k == entry[j] IN
        \/ /\ k <= Len(f) /\ is_file(f[k])
           /\ \E size \in 0..MaxSize : AddJob(j, size)
           /\ entry' = [entry EXCEPT ![j] = k + 1]
           /\ UNCHANGED <<update_queue, paths>>
        \/ /\ k <= Len(f) /\ ~is_file(f[k])
           /\ entry' = [entry EXCEPT ![j] = k + 1]
           /\ UNCHANGED <<update_queue, jobs, total_bytes, paths>>
        \/ /\ k > Len(f)
           /\ entry' = [entry EXCEPT ![j] = 0]
           /\ paths' = [paths EXCEPT ![j] = Tail(@)]
           /\ UNCHANGED <<update_queue, jobs, total_bytes>>
        \/ /\ update_queue' = EnumFailure(update_queue, j, Len(paths[j]))
           /\ entry' = [entry EXCEPT ![j] = 0]
           /\ paths' = [paths EXCEPT ![j] = Tail(@)]
           /\ UNCHANGED <<jobs, total_bytes>>
    /\ UNCHANGED enum_vars

FractionAfterEnumKept(f, total) == f

\* if total_bytes == 0: self.progress_bar.set_fraction(1.0)
FractionAfterEnum(f, total) == IF total = 0 THEN One ELSE f

\* after the loop over paths: the total_bytes == 0 check, hash_task.bytes_read = 0,
\* and executor.map submits one future per job
schedule(j) ==
    /\ thread[j] = "enum" /\ entry[j] = 0 /\ paths[j] = <<>>
    /\ fraction' = FractionAfterEnum(fraction, total_bytes[j])
    /\ frac_src' = IF total_bytes[j] = 0 THEN 0 ELSE frac_src
    /\ bytes_read' = [bytes_read EXCEPT ![j] = 0]
    /\ task' = [task EXCEPT ![j] = [i \in JobIds |-> IF i <= NJobs(j) THEN Pending ELSE NoTask]]
    /\ thread' = [thread EXCEPT ![j] = "pool"]
    /\ UNCHANGED <<limits, algo, output, cancel_event, update_queue, ui_results, ui_errors, button_cancel,
                   button_open, timers, started, max_workers,
                   paths, entry, jobs, total_bytes, cancelled, seen_one>>

\* ------------------------------------------------------------ hash_task
task_vars == <<limits, algo, output, cancel_event, fraction, ui_results, ui_errors, button_cancel,
               button_open, timers, started, max_workers,
               thread, paths, entry, jobs, total_bytes, cancelled,
               frac_src, seen_one>>

Pc(j, i) == task[j][i].pc
SetTask(j, i, t) == task' = [task EXCEPT ![j][i] = t]

AbandonIgnored(t) ==
    IF t.pc = "pending" THEN [t EXCEPT !.pc = "read"]
    ELSE [t EXCEPT !.pc = "load", !.hashed = @ + 1]

\* if self.cancel_event.is_set(): return
Abandon(t) == [t EXCEPT !.pc = "abandoned", !.tmp = 0]

ExceptHandlerSilent(q, j, i) == q

\* except Exception as e: self.update_queue.put(("error", str(file), str(e), algo))
ExceptHandler(q, j, i) == Append(q, ErrorEv(j, "task", i))

\* A worker takes the oldest pending future and runs hash_task up to the
\* try statement: the cancel check, file.stat() and hashlib.new(algo). The
\* last two are outside the try: an exception there ends the future, and
\* hashlib.new raises for every name outside the supported set.
hash_task_start(j, i) ==
    /\ thread[j] = "pool"
    /\ i \in Tasks(j)
    /\ Pc(j, i) = "pending"
    /\ \A k \in 1..(i - 1) : Pc(j, k) # "pending"
    /\ Cardinality({k \in Tasks(j) : Pc(j, k) \in Running}) < max_workers
    /\ IF cancel_event
       THEN SetTask(j, i, Abandon(task[j][i]))
       ELSE \/ SetTask(j, i, [task[j][i] EXCEPT !.pc = "raised"])
            \/ /\ algo[j] \in Supported
               /\ SetTask(j, i, [task[j][i] EXCEPT !.pc = "read"])
    /\ UNCHANGED <<update_queue, bytes_read>>
    /\ UNCHANGED task_vars

update_skipped(t) == t

\* hash_obj.update(chunk): the chunk just read goes to the task's own hash_obj
update(t) == [t EXCEPT !.hashed = @ + 1]

\* open(file, "rb") on the first pass, then chunk := f.read(chunk_size):
\* an OSError goes to the except clause; an empty chunk ends the loop and the
\* result is put; a chunk is followed by the cancel check and hash_obj.update.
hash_task_read(j, i) ==
    /\ i \in Tasks(j)
    /\ Pc(j, i) = "read"
    /\ \/ /\ update_queue' = ExceptHandler(update_queue, j, i)
          /\ SetTask(j, i, [task[j][i] EXCEPT !.pc = "error"])
       \/ /\ update_queue' = Append(update_queue, ResultEv(j, i))
          /\ SetTask(j, i, [task[j][i] EXCEPT !.pc = "result"])
       \/ /\ task[j][i].read < MaxSize
          /\ LET t == [task[j][i] EXCEPT !.read = @ + 1] IN
             IF cancel_event
             THEN SetTask(j, i, Abandon(t))
             ELSE SetTask(j, i, [update(t) EXCEPT !.pc = "load"])
          /\ UNCHANGED update_queue
    /\ UNCHANGED bytes_read
    /\ UNCHANGED task_vars

\* hash_task.bytes_read += len(chunk), first half: the attribute is read
hash_task_load(j, i) ==
    /\ i \in Tasks(j)
    /\ Pc(j, i) = "load"
    /\ SetTask(j, i, [task[j][i] EXCEPT !.pc = "store", !.tmp = bytes_read[j]])
    /\ UNCHANGED <<update_queue, bytes_read>>
    /\ UNCHANGED task_vars

\* hash_task.bytes_read += len(chunk), second half: the sum is stored
hash_task_store(j, i) ==
    /\ i \in Tasks(j)
    /\ Pc(j, i) = "store"
    /\ bytes_read' = [bytes_read EXCEPT ![j] = task[j][i].tmp + 1]
    /\ SetTask(j, i, [task[j][i] EXCEPT !.pc = "frac", !.tmp = 0])
    /\ UNCHANGED update_queue
    /\ UNCHANGED task_vars

\* the argument of put: hash_task.bytes_read is read and divided by
\* total_bytes; with total_bytes == 0 the division raises and the except
\* clause takes over
hash_task_frac(j, i) ==
    /\ i \in Tasks(j)
    /\ Pc(j, i) = "frac"
    /\ IF total_bytes[j] = 0
       THEN /\ update_queue' = ExceptHandler(update_queue, j, i)
            /\ SetTask(j, i, [task[j][i] EXCEPT !.pc = "error"])
       ELSE /\ SetTask(j, i, [task[j][i] EXCEPT !.pc = "put",
                                              !.tmp = bytes_read[j]])
            /\ UNCHANGED update_queue
    /\ UNCHANGED bytes_read
    /\ UNCHANGED task_vars

\* self.update_queue.put(("progress", ...)), then the next pass of the loop
hash_task_put(j, i) ==
    /\ i \in Tasks(j)
    /\ Pc(j, i) = "put"
    /\ update_queue' = Append(update_queue,
                              ProgressEv(j, Fraction(task[j][i].tmp, total_bytes[j])))
    /\ SetTask(j, i, [task[j][i] EXCEPT !.pc = "read", !.tmp = 0])
    /\ UNCHANGED bytes_read
    /\ UNCHANGED task_vars

\* ----------------------------- calculate_hash: list(executor.map(...))
\* The results are collected in job order. The first future found to have
\* raised re-raises in calculate_hash: the futures still pending are
\* cancelled, the with statement waits for the running ones, and the
\* exception ends the processing thread.
FirstRaised(j) ==
    \E k \in Tasks(j) :
        /\ Pc(j, k) = "raised"
        /\ \A m \in 1..(k - 1) : Pc(j, m) \in Terminal \ {"raised"}

collect(j) ==
    /\ thread[j] = "pool"
    /\ \/ /\ \A k \in Tasks(j) : Pc(j, k) \in Terminal \ {"raised"}
          /\ thread' = [thread EXCEPT ![j] = "returned"]
          /\ UNCHANGED task
       \/ /\ FirstRaised(j)
          /\ thread' = [thread EXCEPT ![j] = "unwind"]
          /\ task' = [task EXCEPT ![j] = [i \in JobIds |->
                        IF task[j][i].pc = "pending"
                        THEN [task[j][i] EXCEPT !.pc = "cancelled"]
                        ELSE task[j][i]]]
    /\ UNCHANGED <<limits, algo, output, cancel_event, update_queue, fraction, ui_results, ui_errors,
                   button_cancel, button_open, timers, started,
                   max_workers, paths, entry, jobs, total_bytes,
                   bytes_read, cancelled, frac_src, seen_one>>

\* executor.shutdown(wait=True) is over: the exception leaves calculate_hash
unwind(j) ==
    /\ thread[j] = "unwind"
    /\ \A k \in Tasks(j) : Pc(j, k) \notin Running
    /\ thread' = [thread EXCEPT ![j] = "raised"]
    /\ UNCHANGED <<limits, algo, output, cancel_event, update_queue, fraction, ui_results, ui_errors,
                   button_cancel, button_open, timers, started,
                   max_workers, paths, entry, jobs, total_bytes,
                   bytes_read, task, cancelled, frac_src, seen_one>>

\* ----------------------------------------------------- specifications
Next ==
    \/ start_job
    \/ cancel_clicked
    \/ process_queue
    \/ check_processing_complete
    \/ \E j \in JobSets : enum_file(j)
    \/ \E j \in JobSets : enum_dir_enter(j)
    \/ \E j \in JobSets : enum_dir_entry(j)
    \/ \E j \in JobSets : schedule(j)
    \/ \E j \in JobSets, i \in JobIds : hash_task_start(j, i)
    \/ \E j \in JobSets, i \in JobIds : hash_task_read(j, i)
    \/ \E j \in JobSets, i \in JobIds : hash_task_load(j, i)
    \/ \E j \in JobSets, i \in JobIds : hash_task_store(j, i)
    \/ \E j \in JobSets, i \in JobIds : hash_task_frac(j, i)
    \/ \E j \in JobSets, i \in JobIds : hash_task_put(j, i)
    \/ \E j \in JobSets : collect(j)
    \/ \E j \in JobSets : unwind(j)

Spec == Init /\ [][Next]_vars

\* GLib calls a live timer's callback every 100 ms: process_queue keeps
\* being run for as long as one of its timers is registered.
\* The liveness claims are checked on the wide runs.
FairInit == Init /\ limits = Wide
FairSpec == FairInit /\ [][Next]_vars /\ WF_vars(process_queue)

\* GLib runs every live timer and the operating system runs every thread:
\* each callback and each thread step that can be taken is taken in the end.
\* Only start_job and the Cancel button wait for the user.
Background ==
    \/ \E j \in JobSets : enum_file(j) \/ enum_dir_enter(j) \/ enum_dir_entry(j)
    \/ \E j \in JobSets : schedule(j) \/ collect(j) \/ unwind(j)
    \/ \E j \in JobSets, i \in JobIds :
          \/ hash_task_start(j, i) \/ hash_task_read(j, i) \/ hash_task_load(j, i)
          \/ hash_task_store(j, i) \/ hash_task_frac(j, i) \/ hash_task_put(j, i)

LiveSpec ==
    /\ FairInit /\ [][Next]_vars
    /\ WF_vars(process_queue) /\ WF_vars(check_processing_complete)
    /\ WF_vars(Background)

\* The rows the window can hold when Copy or Save is clicked, and the
\* handler on its own: it reads the two lists and changes neither.
ResultRows == {Row(ResultEv(1, i)) : i \in 1..MaxJobs}
ErrorRows == {Row(ErrorEv(1, src, i)) : src \in {"task", "enum"}, i \in 1..MaxJobs}

TxtInit ==
    /\ limits = Wide
    /\ algo = [j \in JobSets |-> "sha256"]
    /\ output = NoOutput
    /\ cancel_event = FALSE
    /\ update_queue = Queue
    /\ fraction = One
    /\ ui_results \in SeqsUpTo(ResultRows, MaxRows)
    /\ ui_errors \in SeqsUpTo(ErrorRows, MaxRows)
    /\ button_cancel = FALSE
    /\ button_open = TRUE
    /\ timers = [pq |-> 0, cpc |-> 0]
    /\ started = 0
    /\ max_workers = 1
    /\ thread = [j \in JobSets |-> "none"]
    /\ paths = [j \in JobSets |-> <<>>]
    /\ entry = [j \in JobSets |-> 0]
    /\ jobs = [j \in JobSets |-> <<>>]
    /\ total_bytes = [j \in JobSets |-> 0]
    /\ bytes_read = [j \in JobSets |-> 0]
    /\ task = [j \in JobSets |-> [i \in JobIds |-> NoTask]]
    /\ cancelled = [j \in JobSets |-> FALSE]
    /\ frac_src = 0
    /\ seen_one = [j \in JobSets |-> FALSE]

TxtNext == on_copy_all_clicked

TxtSpec == TxtInit /\ [][TxtNext]_vars

\* The queue as one call of process_queue can find it when the producers
\* have run ahead of the timer: the k-th event is a 'progress' event or the
\* outcome of job k. The callback on its own, with the flag set or clear.
DrainEvent(kind, k) ==
    CASE kind = "progress" -> ProgressEv(1, Fraction(k, MaxQueue))
      [] kind = "result" -> ResultEv(1, k)
      [] kind = "error" -> ErrorEv(1, "task", k)

DrainQueues(longest) ==
    UNION {{[k \in 1..n |-> DrainEvent(kinds[k], k)] :
               kinds \in [1..n -> {"progress", "result", "error"}]} : n \in 0..longest}

DrainInit ==
    /\ limits = Wide
    /\ algo = [j \in JobSets |-> "sha256"]
    /\ output = NoOutput
    /\ cancel_event \in BOOLEAN
    /\ update_queue \in DrainQueues(MaxQueue)
    /\ fraction = Zero
    /\ ui_results = <<>>
    /\ ui_errors = <<>>
    /\ button_cancel = TRUE
    /\ button_open = FALSE
    /\ timers = [pq |-> 1, cpc |-> 1]
    /\ started = 1
    /\ max_workers = 1
    /\ thread = [j \in JobSets |-> IF j = 1 THEN "returned" ELSE "none"]
    /\ paths = [j \in JobSets |-> <<>>]
    /\ entry = [j \in JobSets |-> 0]
    /\ jobs = [j \in JobSets |-> <<>>]
    /\ total_bytes = [j \in JobSets |-> 0]
    /\ bytes_read = [j \in JobSets |-> 0]
    /\ task = [j \in JobSets |-> [i \in JobIds |-> NoTask]]
    /\ cancelled = [j \in JobSets |-> j = 1 /\ cancel_event]
    /\ frac_src = 0
    /\ seen_one = [j \in JobSets |-> FALSE]

DrainNext == process_queue

DrainSpec == DrainInit /\ [][DrainNext]_vars

\* ------------------------------------------------- what the claims read
\* outcome events ('result' or 'error') of job i of job set j in a queue
QueuedOutcomes(q, j, i) ==
    Cardinality({k \in 1..Len(q) :
        /\ q[k].kind \in {"result", "error"}
        /\ q[k].js = j /\ q[k].src = "task" /\ q[k].id = i})

\* rows of job i of job set j in a result or error list
Delivered(rows, j, i) == Count(rows, [js |-> j, src |-> "task", id |-> i])

\* 'error' events of job i of job set j, queued or delivered
Failures(j, i) ==
    Count(update_queue, ErrorEv(j, "task", i)) + Delivered(ui_errors, j, i)

\* outcome events job i of job set j has pushed, as long as none was discarded
Outcomes(j, i) ==
    QueuedOutcomes(update_queue, j, i)
    + Delivered(ui_results, j, i) + Delivered(ui_errors, j, i)

CancelRequested == \E j \in JobSets : cancelled[j]

RECURSIVE SumTo(_, _)
SumTo(f, n) == IF n = 0 THEN 0 ELSE f[n] + SumTo(f, n - 1)

\* chunks of job set j that were hashed and whose length has been added
Added(j) ==
    SumTo([i \in JobIds |->
              IF task[j][i].pc \in {"load", "store"}
              THEN task[j][i].hashed - 1 ELSE task[j][i].hashed],
          NJobs(j))

\* ---------------------------------------------------------------- C1
\* C1: in a job set that is never cancelled, when calculate_hash returns
\* every enumerated job has pushed exactly one outcome event, and at no
\* time has a job pushed two.
C1_ExactlyOneOutcome ==
    \A j \in JobSets :
        /\ \A i \in Tasks(j) : Outcomes(j, i) <= 1
        /\ (thread[j] = "returned" /\ ~cancelled[j])
              => \A i \in Tasks(j) : Outcomes(j, i) = 1

\* two jobs hashed by two workers, one ending in a Digest and one in a Failure
C1_Witness ==
    \E j \in JobSets :
        /\ thread[j] = "returned" /\ ~cancelled[j] /\ max_workers = 2
        /\ \E i, k \in Tasks(j) : Pc(j, i) = "result" /\ Pc(j, k) = "error"

\* ---------------------------------------------------------------- C2
\* C2: a job whose hash_task hit an error at any step has pushed exactly one
\* 'error' event, and once calculate_hash is over every job of the set has
\* pushed its outcome.
C2_FailureIsolated ==
    \A j \in JobSets :
        ~cancelled[j] =>
            /\ \A i \in Tasks(j) :
                  Pc(j, i) \in {"error", "raised"} => Failures(j, i) = 1
            /\ thread[j] \in {"returned", "raised"}
                  => \A i \in Tasks(j) : Outcomes(j, i) = 1

\* ---------------------------------------------------------------- C3
\* C3: a hash_task that finds the cancel flag set, at its start or after a
\* chunk read, ends there: that step pushes no event and leaves the byte
\* counter alone, the chunk is not hashed, and the task never moves again.
C3_AbandonedIsSilent ==
    [][\A j \in JobSets, i \in JobIds :
          /\ (Pc(j, i) = "pending" /\ cancel_event
                /\ task'[j][i].pc \notin {"pending", "cancelled"})
             => /\ task'[j][i].pc = "abandoned"
                /\ update_queue' = update_queue
                /\ bytes_read' = bytes_read
          /\ (Pc(j, i) = "read" /\ cancel_event
                /\ task'[j][i].read > task[j][i].read)
             => /\ task'[j][i].pc = "abandoned"
                /\ task'[j][i].hashed = task[j][i].hashed
                /\ update_queue' = update_queue
                /\ bytes_read' = bytes_read
          /\ Pc(j, i) = "abandoned" => task'[j][i] = task[j][i]
      ]_vars

\* one task abandoned at its start and one after a chunk read
C3_Witness ==
    \E j \in JobSets : \E i, k \in Tasks(j) :
        /\ Pc(j, i) = "abandoned" /\ task[j][i].read = 0
        /\ Pc(j, k) = "abandoned" /\ task[j][k].read = 1

\* ---------------------------------------------------------------- C4
\* C4: once cancel is requested for a job set, a task of it that has not
\* started never gets to open and read its file, and a task in flight stops
\* at the check after its next chunk, whatever happens later.
C4_CancelIsFinal ==
    [][\A j \in JobSets, i \in JobIds :
          cancelled[j] =>
            /\ Pc(j, i) = "pending"
                  => task'[j][i].pc \in {"pending", "abandoned", "cancelled", "raised"}
            /\ (Pc(j, i) = "read" /\ task'[j][i].read > task[j][i].read)
                  => task'[j][i].pc = "abandoned"
      ]_vars

\* ---------------------------------------------------------------- C5
InQueue(e) == \E k \in 1..Len(update_queue) : update_queue[k] = e
InList(rows, r) == \E k \in 1..Len(rows) : rows[k] = r

\* C5 as claimed: a 'result' event queued while the cancel flag is clear is
\* eventually handed to add_result, whenever the cancel request arrives.
C5_ResultDelivered ==
    \A j \in JobSets, i \in JobIds :
        (InQueue(ResultEv(j, i)) /\ ~cancel_event)
            ~> InList(ui_results, Row(ResultEv(j, i)))

\* C5 amended: a 'result' event queued while the cancel flag is clear is
\* eventually handed to add_result, unless a drain cycle finds the cancel
\* flag set first and discards it with the queue.
C5_DeliveredOrDiscarded ==
    \A j \in JobSets, i \in JobIds :
        (InQueue(ResultEv(j, i)) /\ ~cancel_event)
            ~> \/ InList(ui_results, Row(ResultEv(j, i)))
               \/ cancel_event /\ ~InQueue(ResultEv(j, i))

\* one Digest delivered, and one discarded by the drain cycle that found the flag set
C5_Witness ==
    \E j \in JobSets : \E i, k \in Tasks(j) :
        /\ InList(ui_results, Row(ResultEv(j, i)))
        /\ Pc(j, k) = "result" /\ cancel_event
        /\ ~InQueue(ResultEv(j, k)) /\ ~InList(ui_results, Row(ResultEv(j, k)))

\* ---------------------------------------------------------------- C6
\* C6: hash_task.bytes_read equals the sum of the lengths of the chunks
\* hashed by all tasks (those whose addition is still under way aside).
C6_NoLostUpdate ==
    \A j \in JobSets :
        thread[j] \in {"pool", "unwind", "returned", "raised"}
            => bytes_read[j] = Added(j)

\* ---------------------------------------------------------------- C7
\* C7: within one job set the fractions process_queue applies to the
\* progress bar never decrease.
C7_ProgressMonotonic ==
    [][(frac_src # 0 /\ frac_src' = frac_src) => FracLeq(fraction, fraction')]_vars

\* ---------------------------------------------------------------- C8
\* C8: a job set with total_bytes > 0 that is never cancelled and whose
\* files were all read to end-of-file at their enumerated sizes has shown
\* the consumer the fraction 1.0 once all its events are drained.
C8_ReachesOne ==
    \A j \in JobSets :
        ( /\ thread[j] = "returned" /\ ~cancelled[j] /\ total_bytes[j] > 0
          /\ \A i \in Tasks(j) : Pc(j, i) = "result" /\ task[j][i].hashed = jobs[j][i]
          /\ \A k \in 1..Len(update_queue) : update_queue[k].js # j )
        => seen_one[j]

\* ---------------------------------------------------------------- C9
ErrorEvents ==
    {ErrorEv(j, "task", i) : j \in JobSets, i \in JobIds}
    \cup {ErrorEv(j, "enum", p) : j \in JobSets, p \in 1..Max(MaxPaths, OverlapPaths)}

\* C9: as long as cancel is never requested, every 'error' event in the
\* queue is eventually in the error list, an event is never there twice,
\* and a task that ended in the except clause has its Failure queued or listed.
C9_FailuresDelivered ==
    /\ [](~CancelRequested =>
            /\ \A e \in ErrorEvents :
                  Count(update_queue, e) + Count(ui_errors, Row(e)) <= 1
            /\ \A j \in JobSets : \A i \in Tasks(j) :
                  Pc(j, i) = "error" => Failures(j, i) = 1)
    /\ \A e \in ErrorEvents :
          InQueue(e) ~> (InList(ui_errors, Row(e)) \/ CancelRequested)

\* a Failure of the enumerator and a Failure of a hash_task, both delivered
C9_Witness ==
    /\ ~CancelRequested
    /\ \E j \in JobSets, i \in JobIds, p \in 1..MaxPaths :
          /\ InList(ui_errors, Row(ErrorEv(j, "task", i)))
          /\ InList(ui_errors, Row(ErrorEv(j, "enum", p)))

\* --------------------------------------------------------------- C10
EnumOnly(j) ==
    /\ \A k \in 1..Len(update_queue) :
          update_queue[k].js = j
             => update_queue[k].kind = "error" /\ update_queue[k].src = "enum"
    /\ \A k \in 1..Len(ui_results) : ui_results[k].js # j
    /\ \A k \in 1..Len(ui_errors) : ui_errors[k].js = j => ui_errors[k].src = "enum"

\* C10: when enumeration ends with no job, the step that ends it sets the
\* progress fraction to 1.0, and from then on the only events of that job
\* set, queued or delivered, are the 'error' events of enumeration.
C10_EmptyJobSet ==
    [][\A j \in JobSets :
          /\ (thread[j] = "enum" /\ thread'[j] # "enum" /\ jobs[j] = <<>>)
                => IsOne(fraction')
          /\ (thread'[j] \notin {"none", "enum"} /\ jobs'[j] = <<>>)
                => EnumOnly(j)'
      ]_vars

\* an empty job set whose two input paths both failed, over and drained
C10_Witness ==
    \E j \in JobSets :
        /\ thread[j] = "returned" /\ jobs[j] = <<>>
        /\ Len(ui_errors) = 2 /\ \A k \in 1..2 : ui_errors[k].js = j

\* --------------------------------------------------------------- C11
\* the enumerator of job set j is at an input path of one of the kinds
AtPath(j, kinds) ==
    /\ thread[j] = "enum" /\ entry[j] = 0 /\ paths[j] # <<>>
    /\ Head(paths[j]).kind \in kinds

EnumErrors == {ErrorEv(j, "enum", p) : j \in JobSets, p \in 1..Max(MaxPaths, OverlapPaths)}

\* C11: the step of the enumerator on a missing path pushes exactly one
\* 'error' event for that path, adds no job and leaves the enumerator at
\* the next path; the event is never there twice; and when enumeration
\* ends every path was visited and every job added is submitted for hashing.
C11_MissingPathIsolated ==
    /\ [](\A e \in EnumErrors :
            ~cancelled[e.js] => Count(update_queue, e) + Count(ui_errors, Row(e)) <= 1)
    /\ [][\A j \in JobSets :
            /\ (AtPath(j, {"missing"}) /\ paths'[j] # paths[j])
                  => /\ update_queue' = Append(update_queue,
                                               ErrorEv(j, "enum", Len(paths[j])))
                     /\ jobs'[j] = jobs[j] /\ total_bytes'[j] = total_bytes[j]
                     /\ paths'[j] = Tail(paths[j]) /\ thread'[j] = "enum"
            /\ (thread[j] = "enum" /\ thread'[j] # "enum")
                  => /\ paths[j] = <<>> /\ thread'[j] = "pool"
                     /\ \A i \in Tasks(j) : task'[j][i] = Pending
       ]_vars

\* a job set of two paths: the first failed in enumeration and its Failure
\* was delivered, the job of the other was hashed and its Digest delivered
C11_Witness ==
    \E j \in JobSets :
        /\ thread[j] = "returned" /\ NJobs(j) = 1 /\ ~cancelled[j]
        /\ InList(ui_errors, Row(ErrorEv(j, "enum", 2)))
        /\ InList(ui_results, Row(ResultEv(j, 1)))

\* --------------------------------------------------------------- C12
EventsOf(j) ==
    Cardinality({k \in 1..Len(update_queue) : update_queue[k].js = j})
    + Cardinality({k \in 1..Len(ui_results) : ui_results[k].js = j})
    + Cardinality({k \in 1..Len(ui_errors) : ui_errors[k].js = j})

\* C12: a job set started with an algorithm name outside the supported set
\* does no work: none of its tasks is ever run, and no event of it, the
\* Failures of enumeration included, is ever queued or delivered.
C12_UnsupportedFailsStart ==
    \A j \in JobSets :
        (thread[j] # "none" /\ algo[j] \notin Supported)
            => /\ EventsOf(j) = 0
               /\ \A i \in JobIds : Pc(j, i) \in {"none", "pending", "cancelled"}

\* --------------------------------------------------------------- C13
\* the enumerator of job set j is inside a listing, at an entry of it
AtEntry(j) ==
    /\ thread[j] = "enum" /\ entry[j] > 0
    /\ entry[j] <= Len(Head(paths[j]).entries)

\* C13: in the listing of a directory that does not raise, the pass over an
\* entry that is a regular file adds one job, the pass over any other entry
\* adds no job, pushes nothing and goes on to the next entry, and entering
\* and leaving the listing add no job: the jobs added are the regular files.
C13_DirectoryListing ==
    [][\A j \in JobSets :
          /\ (AtEntry(j) /\ entry'[j] = entry[j] + 1)
                => IF Head(paths[j]).entries[entry[j]] = "file"
                   THEN /\ Len(jobs'[j]) = Len(jobs[j]) + 1
                        /\ SubSeq(jobs'[j], 1, Len(jobs[j])) = jobs[j]
                        /\ update_queue' = update_queue
                   ELSE /\ jobs'[j] = jobs[j] /\ total_bytes'[j] = total_bytes[j]
                        /\ update_queue' = update_queue
                        /\ paths'[j] = paths[j]
          /\ (AtPath(j, {"dir"}) /\ entry'[j] # entry[j])
                => jobs'[j] = jobs[j] /\ entry'[j] = 1 /\ update_queue' = update_queue
          /\ (thread[j] = "enum" /\ entry[j] > 0
                 /\ entry[j] > Len(Head(paths[j]).entries)
                 /\ entry'[j] = 0 /\ update_queue' = update_queue)
                => jobs'[j] = jobs[j] /\ paths'[j] = Tail(paths[j])
      ]_vars

\* a directory of one regular file and one sub-directory, listed to its end:
\* one job, no Failure
C13_Witness ==
    \E j \in JobSets :
        /\ thread[j] = "enum" /\ entry[j] = 3 /\ Len(paths[j]) = 1
        /\ Head(paths[j]).entries \in {<<"file", "dir">>, <<"dir", "file">>}
        /\ NJobs(j) = 1 /\ EventsOf(j) = 0

\* --------------------------------------------------------------- C14
\* C14: the step of the enumerator on an input path that is neither a
\* directory nor a regular file, missing or special, pushes one 'error'
\* event for that path and adds no job.
C14_NeitherIsFailure ==
    [][\A j \in JobSets :
          (AtPath(j, {"missing", "special"}) /\ paths'[j] # paths[j])
             => /\ update_queue' = Append(update_queue,
                                          ErrorEv(j, "enum", Len(paths[j])))
                /\ jobs'[j] = jobs[j]
      ]_vars

\* --------------------------------------------------------------- C15
HasTitle(text, name) == \E k \in 1..Len(text) : text[k] = TitleLine(name)
RowLines(text) == Cardinality({k \in 1..Len(text) : text[k].kind = "row"})

\* C15: for lists of rows that are not both empty results_to_txt returns a
\* text: it holds the Results section exactly when there is a result, the
\* Errors section exactly when there is an error, and one line per row.
C15_TxtSections ==
    (output.called /\ (ui_results # <<>> \/ ui_errors # <<>>))
        => /\ ~output.raised
           /\ HasTitle(output.text, "Results") <=> ui_results # <<>>
           /\ HasTitle(output.text, "Errors") <=> ui_errors # <<>>
           /\ RowLines(output.text) = Len(ui_results) + Len(ui_errors)

\* --------------------------------------------------------------- C16
\* job sets whose processing thread or worker tasks are still running
Live == {j \in JobSets : thread[j] \in {"enum", "pool", "unwind"}}

\* C16: at most one job set is live at any time: start_job is not run
\* while the thread or a task of an earlier job set is still running.
C16_OneActiveJobSet == Cardinality(Live) <= 1

\* --------------------------------------------------------------- C17
\* C17: when check_processing_complete declares completion, every job of
\* every started, never-cancelled job set has had its outcome handed to
\* add_result, and no task of such a job set is still to run or running.
C17_CompleteMeansDelivered ==
    [][(~button_open /\ button_open')
          => \A j \in 1..started :
                ~cancelled[j]
                   => /\ thread[j] # "enum"
                      /\ \A i \in Tasks(j) :
                            /\ Pc(j, i) \notin Running \cup {"pending"}
                            /\ Delivered(ui_results, j, i)
                                  + Delivered(ui_errors, j, i) = 1
      ]_vars

\* --------------------------------------------------------------- C18
\* C18: a job set that was started is eventually declared complete (the
\* Open button is sensitive again), unless cancel is requested.
C18_EventuallyComplete ==
    (started = 1) ~> (button_open \/ CancelRequested)

\* --------------------------------------------------------------- C19
\* C19: once a job set was cancelled and a later one started, no event of
\* the cancelled job set is applied to the progress bar or added to the
\* result and error lists.
C19_NoStaleEvents ==
    [][\A a \in JobSets :
          (cancelled[a] /\ started > a)
             => /\ \A k \in (Len(ui_results) + 1)..Len(ui_results') :
                      ui_results'[k].js # a
                /\ \A k \in (Len(ui_errors) + 1)..Len(ui_errors') :
                      ui_errors'[k].js # a
                /\ frac_src' = a => frac_src = a
      ]_vars

\* --------------------------------------------------------------- C20
\* C20: when enumeration ends with total_bytes == 0 the fraction is set to
\* 1.0, and no hash_task of that job set is ever started, also when the job
\* set holds zero-byte files.
C20_NoTaskForZeroBytes ==
    [][\A j \in JobSets :
          /\ (thread[j] = "enum" /\ thread'[j] # "enum" /\ total_bytes[j] = 0)
                => IsOne(fraction')
          /\ (thread[j] # "none" /\ total_bytes[j] = 0)
                => \A i \in JobIds : task'[j][i].pc \in {"none", "pending"}
      ]_vars

\* --------------------------------------------------------------- C21
\* C21: with the cancel flag set the enumerator expands no further input
\* path: at a path it has not yet expanded it adds no job, enters no
\* listing and pushes no Failure for that path.
C21_EnumeratorObservesCancel ==
    [][\A j \in JobSets :
          (AtPath(j, {"missing", "file", "special", "dir"}) /\ cancel_event)
             => /\ jobs'[j] = jobs[j]
                /\ entry'[j] = entry[j]
                /\ update_queue' # Append(update_queue,
                                          ErrorEv(j, "enum", Len(paths[j])))
      ]_vars

\* --------------------------------------------------------------- C22
\* C22: one call of process_queue that finds the flag clear takes at most
\* 8 events from the queue, whatever their kinds.
C22_BoundedBatch ==
    [][~cancel_event => Len(update_queue) - Len(update_queue') <= BatchLimit]_vars

\* --------------------------------------------------------------- C23
\* the rows add_result makes of the events of one kind among the first n of q
RowsOf(q, n, kind) ==
    LET taken == SelectSeq(SubSeq(q, 1, n), LAMBDA e : e.kind = kind)
    IN  [k \in 1..Len(taken) |-> Row(taken[k])]

\* C23: a call of process_queue that finds the cancel flag set delivers
\* nothing, leaves the queue empty and stops its timer; a call that finds
\* it clear delivers the events it took, keeps its timer, and leaves the
\* events it did not take in the queue in their order.
C23_DrainFrame ==
    [][IF cancel_event
       THEN /\ ui_results' = ui_results /\ ui_errors' = ui_errors
            /\ fraction' = fraction
            /\ update_queue' = <<>>
            /\ timers'.pq = timers.pq - 1
       ELSE LET n == Len(update_queue) - Len(update_queue') IN
            /\ n >= 0
            /\ update_queue' = SubSeq(update_queue, n + 1, Len(update_queue))
            /\ ui_results' = ui_results \o RowsOf(update_queue, n, "result")
            /\ ui_errors' = ui_errors \o RowsOf(update_queue, n, "error")
            /\ timers' = timers
      ]_vars

\* a call that found the flag clear took a full batch and left events behind
C23_Witness ==
    /\ ~cancel_event /\ timers.pq = 1
    /\ Len(ui_results) + Len(ui_errors) = BatchLimit
    /\ update_queue # <<>>

\* --------------------------------------------------------------- C24
\* C24: every 'progress' event a hash_task puts carries the counter it read
\* over total_bytes, cut off at 1.0: its value is between 0 and 1, also when
\* more bytes were read than enumeration counted.
C24_ProgressClamped ==
    /\ [](\A k \in 1..Len(update_queue) :
            update_queue[k].kind = "progress"
               => LET f == update_queue[k].frac IN
                  /\ f[2] > 0 /\ 0 <= f[1] /\ f[1] <= f[2]
                  /\ f = One \/ f[2] = total_bytes[update_queue[k].js])
    /\ [][\A j \in JobSets, i \in JobIds :
            (Pc(j, i) = "put" /\ task'[j][i].pc # "put")
               => update_queue' =
                     Append(update_queue,
                            ProgressEv(j, IF task[j][i].tmp >= total_bytes[j] THEN One
                                          ELSE <<task[j][i].tmp, total_bytes[j]>>))
       ]_vars

\* two chunks were counted against a total of one, and both events carry 1.0
C24_Witness ==
    \E j \in JobSets :
        /\ bytes_read[j] = 2 /\ total_bytes[j] = 1
        /\ Count(update_queue, ProgressEv(j, One)) = 2

\* --------------------------------------------------------------- C25
\* C25: whenever a hash_task divides its counter by total_bytes,
\* total_bytes > 0.
C25_NoDivisionByZero ==
    \A j \in JobSets, i \in JobIds : Pc(j, i) = "frac" => total_bytes[j] > 0

C27_TotalIsSumOfJobs ==
    \A j \in JobSets : total_bytes[j] = SumTo(jobs[j], NJobs(j))

\* one input path gave both a job and a Failure: a directory whose listing
\* raised after an entry of one chunk had been added
C27_Witness ==
    \E j \in JobSets :
        /\ limits = Overlapping /\ thread[j] = "pool"
        /\ jobs[j] = <<1>> /\ InQueue(ErrorEv(j, "enum", 1))

\* --------------------------------------------------------------- C28
\* C28: once the job set is declared complete, by progress or by cancel,
\* the timers start_job registered all stop in the end.
C28_TimersStop ==
    (started = 1 /\ button_open) ~> (timers.pq = 0 /\ timers.cpc = 0)

====
